---- MODULE Spec2Model ----
(***************************************************************************)
(* Model of wayback_mcp/server.py: the four host-invoked operations        *)
(* get_snapshots, get_archived_page, wayback_resource and search_items,    *)
(* each running over one scoped httpx.AsyncClient and one upstream GET.    *)
(*                                                                         *)
(* Representation.                                                         *)
(*  - Optional[T]: None is <<>>, a present value x is <<x>>.               *)
(*  - A Python str that the code only formats into other strings (urls,    *)
(*    timestamps, CDX cells) is a TLA+ string, joined with \o.             *)
(*  - A Python str that the code inspects character by character (the      *)
(*    search query: truthiness, strip()) is a sequence of one-character    *)
(*    strings, and so is everything concatenated to it.                    *)
(*  - A Python list is a sequence; Python's 0-based index i is position    *)
(*    i + 1 of the sequence.                                               *)
(*  - A dict is a function on the set of its keys.                         *)
(***************************************************************************)
EXTENDS Integers, Sequences, FiniteSets, TLC

VARIABLES pc, op, args, q, archived_url, opened, gets, closed,
          resp, exc, fetched, result, error, fed

vars == <<pc, op, args, q, archived_url, opened, gets, closed,
          resp, exc, fetched, result, error, fed>>

None == <<>>
Some(x) == <<x>>

(***************************************************************************)
(* Bounds of the model.                                                    *)
(***************************************************************************)
MaxRows == 2
MaxCols == 7
MaxQueryLen == 3

(***************************************************************************)
(* Module constants of server.py.                                          *)
(***************************************************************************)
WAYBACK_ENDPOINT == "https://web.archive.org/web"

STAR_QUERY == <<"*", ":", "*">>
AND_MEDIATYPE == <<" ", "A", "N", "D", " ", "m", "e", "d", "i", "a", "t", "y", "p", "e", ":">>
AND_COLLECTION == <<" ", "A", "N", "D", " ", "c", "o", "l", "l", "e", "c", "t", "i", "o", "n", ":">>

(***************************************************************************)
(* Python helpers.                                                         *)
(***************************************************************************)
Max(S) == CHOOSE m \in S : \A n \in S : n <= m

\* d.get(k, default)
DictGet(d, k, default) == IF k \in DOMAIN d THEN d[k] ELSE default

\* str.strip(): leading and trailing whitespace removed
IsSpace(c) == c \in {" ", "\t", "\n", "\r"}

RECURSIVE LStrip(_)
LStrip(s) == IF s = <<>> \/ ~IsSpace(Head(s)) THEN s ELSE LStrip(Tail(s))

RECURSIVE RStrip(_)
RStrip(s) == IF s = <<>> \/ ~IsSpace(s[Len(s)]) THEN s ELSE RStrip(SubSeq(s, 1, Len(s) - 1))

Strip(s) == RStrip(LStrip(s))

(***************************************************************************)
(* Inputs: what the host passes and what the upstream services answer.     *)
(***************************************************************************)
Urls == {"example.com", "a.org/x?y=1"}
Timestamps == {"20200101000000"}

\* Upstream HTTP statuses of the final response (redirects already followed).
Statuses == {200, 206, 304, 404, 503}

\* Exceptions client.get raises without a response.
TransportErrors == {"TimeoutException", "ConnectError"}

\* CDX: the documented header row.
StdHeader == <<"urlkey", "timestamp", "original", "mimetype", "statuscode", "digest", "length">>

Reverse(s) == [i \in 1..Len(s) |-> s[Len(s) + 1 - i]]

\* s without its position d (d = 0: s itself)
Drop(s, d) == [i \in 1..(Len(s) - (IF d = 0 THEN 0 ELSE 1)) |-> IF d = 0 \/ i < d THEN s[i] ELSE s[i + 1]]

\* The cell of data row r at Python column j: distinct for distinct (r, j).
Cell(r, j) == "r" \o ToString(r) \o "c" \o ToString(j)

JList(cells) == [kind |-> "list", cells |-> cells]
JNull == [kind |-> "null", cells |-> <<>>]

\* Data row r with n columns.
Row(r, n) == JList([i \in 1..n |-> Cell(r, i - 1)])

\* Header rows: the documented one, reordered, with one name omitted, empty,
\* with a name repeated, a data row in the header's place, and a JSON null.
CdxHeaders ==
    {JList(Drop(h, d)) : h \in {StdHeader, Reverse(StdHeader)}, d \in 0..Len(StdHeader)}
    \cup {JList(<<>>),
          JList(<<"digest", "timestamp", "original", "mimetype", "statuscode", "digest", "length">>),
          Row(0, Len(StdHeader)),
          JNull}

\* A data row: a list of 0..MaxCols cells, or a JSON null.
CdxRow(r) == {Row(r, n) : n \in 0..MaxCols} \cup {JNull}

RECURSIVE CdxRowLists(_)
CdxRowLists(n) ==
    IF n = 0 THEN {<<>>}
    ELSE LET shorter == CdxRowLists(n - 1)
         IN  shorter \cup {Append(rs, row) : rs \in {x \in shorter : Len(x) = n - 1}, row \in CdxRow(n)}

\* JSON bodies of the CDX endpoint: not JSON at all, a non-list value, a list.
CdxBodies ==
    {[kind |-> k, items |-> <<>>] : k \in {"invalid", "null", "dict", "number", "string", "list"}}
    \cup {[kind |-> "list", items |-> <<h>> \o rs] : h \in CdxHeaders, rs \in CdxRowLists(MaxRows)}

\* JSON bodies of the Advanced Search endpoint.
JDict(d) == [kind |-> "dict", value |-> d]
EmptyDict == [k \in {} |-> 0]
SearchDocs == <<"doc1", "doc2">>
SearchResponses ==
    {JDict(EmptyDict),
     JDict([numFound |-> 2, docs |-> SearchDocs]),
     JDict([numFound |-> 1]),
     JDict([docs |-> SearchDocs]),
     [kind |-> "null", value |-> EmptyDict]}
SearchBodies ==
    {[kind |-> k, value |-> EmptyDict] : k \in {"invalid", "list", "null", "dict"}}
    \cup {JDict([error |-> "bad query"])}
    \cup {JDict([response |-> r]) : r \in SearchResponses}

JsonResponses(bodies) == [status : Statuses, body : bodies]

\* Replay responses: any status, an optional content-type header, a body that
\* decodes as text or does not.
TextResponses ==
    [status : Statuses, ctype : {None, Some("image/png")}, decodable : BOOLEAN, body : {"<html>"}]

\* The search query: every string of at most MaxQueryLen characters.
QueryChars == {" ", "a"}
Queries == UNION {[1..n -> QueryChars] : n \in 0..MaxQueryLen}
Mediatypes == {None, Some(<<>>), Some(<<"t", "e", "x", "t", "s">>)}
Collections == {None, Some(<<"w", "e", "b">>)}
RowCounts == {50}
Pages == {1, 2}

(***************************************************************************)
(* HTTP Fetch Adapter: _fetch_json and _fetch_text.                        *)
(***************************************************************************)
Raised(e) == [ok |-> FALSE, value |-> None, error |-> e]
Returned(v) == [ok |-> TRUE, value |-> Some(v), error |-> ""]

\* resp.raise_for_status(): raises unless the status is a success (2xx)
RaiseForStatus_only4xx5xx(status) == status >= 400
RaiseForStatus(status) == status \notin 200..299

\* AsyncClient.__aexit__: leaving the `async with` block closes the client,
\* whether the block returned or raised.  n counts the closes so far.
AExit_onlyOnSuccess(n, raised) == IF raised THEN n ELSE n + 1
AExit(n, raised) == n + 1

\* The body of _fetch_json after client.get: x is the raised transport
\* exception ("" when a response came back), r the response.
FetchJsonBody(x, r) ==
    IF x # "" THEN Raised(x)
    ELSE IF RaiseForStatus(r[1].status) THEN Raised("HTTPStatusError")
    ELSE IF r[1].body.kind = "invalid" THEN Raised("JSONDecodeError")
    ELSE Returned(r[1].body)

\* The body of _fetch_text after client.get: the response whatever its status.
FetchTextBody_raiseForStatus(x, r) ==
    IF x # "" THEN Raised(x)
    ELSE IF r[1].status \notin 200..299 THEN Raised("HTTPStatusError")
    ELSE Returned(r[1])
FetchTextBody(x, r) ==
    IF x # "" THEN Raised(x) ELSE Returned(r[1])

(***************************************************************************)
(* CDX Row Normalizer: the body of get_snapshots after the fetch.          *)
(***************************************************************************)
\* {name: idx for idx, name in enumerate(headers)}: the last position wins
IndexByName(headers) ==
    [name \in {headers[i] : i \in 1..Len(headers)} |->
        Max({i - 1 : i \in {k \in 1..Len(headers) : headers[k] = name}})]

Fields == <<"timestamp", "original", "mimetype", "statuscode", "digest", "length">>

\* the second argument of each index_by_name.get(name, default)
DefaultIndex_digestAt4(name) ==
    CASE name = "timestamp" -> 1 [] name = "original" -> 2 [] name = "mimetype" -> 3
      [] name = "statuscode" -> 4 [] name = "digest" -> 4 [] name = "length" -> 6
DefaultIndex(name) ==
    CASE name = "timestamp" -> 1 [] name = "original" -> 2 [] name = "mimetype" -> 3
      [] name = "statuscode" -> 4 [] name = "digest" -> 5 [] name = "length" -> 6

FieldIndex(index_by_name, name) == DictGet(index_by_name, name, DefaultIndex(name))

\* row[i] raises: TypeError on a non-subscriptable row, IndexError past the end
SubscriptRaises(row, i) == row.kind # "list" \/ i >= Len(row.cells)

\* the try block raises at the first field whose subscript raises
RowRaises(row, index_by_name) ==
    \E k \in 1..Len(Fields) : SubscriptRaises(row, FieldIndex(index_by_name, Fields[k]))

\* f"{WAYBACK_ENDPOINT}/{ts}/{orig}"
SnapshotArchivedUrl(ts, orig) == WAYBACK_ENDPOINT \o "/" \o ts \o "/" \o orig

SnapshotRecord(row, index_by_name) ==
    LET at(name) == row.cells[FieldIndex(index_by_name, name) + 1]
    IN  [timestamp |-> at("timestamp"),
         original_url |-> at("original"),
         mimetype |-> at("mimetype"),
         statuscode |-> at("statuscode"),
         digest |-> at("digest"),
         length |-> at("length"),
         archived_url |-> SnapshotArchivedUrl(at("timestamp"), at("original"))]

\* for row in rows: try: ... results.append(...) except Exception: continue
RECURSIVE NormalizeRows_abortOnMalformed(_, _)
NormalizeRows_abortOnMalformed(rows, index_by_name) ==
    IF rows = <<>> THEN <<>>
    ELSE IF RowRaises(Head(rows), index_by_name) THEN <<>>
    ELSE <<SnapshotRecord(Head(rows), index_by_name)>>
         \o NormalizeRows_abortOnMalformed(Tail(rows), index_by_name)

RECURSIVE NormalizeRows(_, _)
NormalizeRows(rows, index_by_name) ==
    IF rows = <<>> THEN <<>>
    ELSE IF RowRaises(Head(rows), index_by_name) THEN NormalizeRows(Tail(rows), index_by_name)
    ELSE <<SnapshotRecord(Head(rows), index_by_name)>> \o NormalizeRows(Tail(rows), index_by_name)

\* `not isinstance(raw, list) or not raw`
EmptyOrNotList_onlyEmptyList(raw) == raw.kind = "list" /\ raw.items = <<>>
EmptyOrNotList(raw) == raw.kind # "list" \/ raw.items = <<>>

\* get_snapshots from the fetched value to its return value
\* (raw[0] raises on a value that is no list and on an empty list; enumerate
\* raises TypeError on a header that is not iterable)
GetSnapshotsBody(url, raw) ==
    IF EmptyOrNotList(raw) THEN Returned([url |-> url, snapshots |-> <<>>, count |-> 0])
    ELSE IF raw.kind # "list" THEN Raised("TypeError")
    ELSE IF raw.items = <<>> THEN Raised("IndexError")
    ELSE LET headers == raw.items[1]
             rows == Tail(raw.items)
         IN  IF headers.kind # "list" THEN Raised("TypeError")
             ELSE LET results == NormalizeRows(rows, IndexByName(headers.cells))
                  IN  Returned([url |-> url, snapshots |-> results, count |-> Len(results)])


(***************************************************************************)
(* Archived-URL Formatter and the bodies of get_archived_page and          *)
(* wayback_resource after the fetch.                                       *)
(***************************************************************************)
\* mode = "id_/" if original else ""; f"{WAYBACK_ENDPOINT}/{timestamp}/{mode}{url}"
PageArchivedUrl_alwaysIdMode(url, timestamp, original) ==
    WAYBACK_ENDPOINT \o "/" \o timestamp \o "/" \o "id_/" \o url
PageArchivedUrl(url, timestamp, original) ==
    LET mode == IF original THEN "id_/" ELSE ""
    IN  WAYBACK_ENDPOINT \o "/" \o timestamp \o "/" \o mode \o url

\* f"{WAYBACK_ENDPOINT}/{timestamp}/{url}"
ResourceArchivedUrl(url, timestamp) == WAYBACK_ENDPOINT \o "/" \o timestamp \o "/" \o url

\* try: text = resp.text / except Exception: text = None
ResponseText(r) == IF r.decodable THEN Some(r.body) ELSE None

\* "status_code": resp.status_code
ResultStatus(r) == r.status

\* dict(resp.headers), of which the model keeps the content-type header
ResponseHeaders(r) == IF r.ctype = None THEN EmptyDict ELSE [content_type |-> r.ctype[1]]

GetArchivedPageBody(a, url, r) ==
    Returned([url |-> a.url,
              timestamp |-> a.timestamp,
              archived_url |-> url,
              status_code |-> ResultStatus(r),
              headers |-> ResponseHeaders(r),
              text |-> ResponseText(r)])

\* resp.headers.get("content-type", "text/html")
ResourceMime(r) == IF r.ctype = None THEN "text/html" ELSE r.ctype[1]

WaybackResourceBody(url, r) ==
    Returned(<<[uri |-> url, mimeType |-> ResourceMime(r), text |-> ResponseText(r)]>>)

(***************************************************************************)
(* Advanced-Search Query Builder and the body of search_items.             *)
(***************************************************************************)
\* truthiness of an Optional[str]: None and "" are false
Truthy(o) == o # None /\ o[1] # <<>>

\* q = query.strip() if query else "*:*"
BaseQuery(query) == IF query # <<>> THEN Strip(query) ELSE STAR_QUERY

\* f" AND mediatype:{mediatype}"
MediatypeClause_noLeadingSpace(mediatype) == Tail(AND_MEDIATYPE) \o mediatype
MediatypeClause(mediatype) == AND_MEDIATYPE \o mediatype

\* f" AND collection:{collection}"
CollectionClause(collection) == AND_COLLECTION \o collection

ComposeQuery(query, mediatype, collection) ==
    LET q0 == BaseQuery(query)
        q1 == IF Truthy(mediatype) THEN q0 \o MediatypeClause(mediatype[1]) ELSE q0
    IN  IF Truthy(collection) THEN q1 \o CollectionClause(collection[1]) ELSE q1

\* data.get("response", {}) if isinstance(data, dict) else {}
SearchResponse_requireContainer(data) ==
    IF data.kind = "dict" THEN DictGet(data.value, "response", [kind |-> "null", value |-> EmptyDict])
    ELSE [kind |-> "null", value |-> EmptyDict]
SearchResponse(data) ==
    IF data.kind = "dict" THEN DictGet(data.value, "response", JDict(EmptyDict))
    ELSE JDict(EmptyDict)

\* search_items from the fetched value to its return value; response.get
\* raises AttributeError when `response` is not a dict
SearchItemsBody(a, query, data) ==
    LET response == SearchResponse(data)
    IN  IF response.kind # "dict" THEN Raised("AttributeError")
        ELSE Returned([q |-> query,
                       rows |-> a.rows,
                       page |-> a.page,
                       numFound |-> DictGet(response.value, "numFound", 0),
                       docs |-> DictGet(response.value, "docs", <<>>)])

(***************************************************************************)
(* The invocation: the host calls one operation; the operation opens its   *)
(* client, issues the GET and suspends; the upstream answers or the        *)
(* request fails; the fetch helper leaves its `async with` block; the      *)
(* operation shapes its result.                                            *)
(***************************************************************************)
JsonOps == {"get_snapshots", "search_items"}
TextOps == {"get_archived_page", "wayback_resource"}

\* No invocation is running: the host may call an operation.
Ready == pc = "idle"

Init ==
    /\ pc = "idle"
    /\ op = "none"
    /\ args = <<>>
    /\ q = <<>>
    /\ archived_url = ""
    /\ opened = 0
    /\ gets = 0
    /\ closed = 0
    /\ resp = None
    /\ exc = ""
    /\ fetched = None
    /\ result = None
    /\ error = ""
    /\ fed = None

\* A fresh invocation of operation o with arguments a and locals query, url.
Enter(o, a, query, url, source) ==
    /\ pc' = "called"
    /\ op' = o
    /\ args' = a
    /\ q' = query
    /\ archived_url' = url
    /\ opened' = 0
    /\ gets' = 0
    /\ closed' = 0
    /\ resp' = None
    /\ exc' = ""
    /\ fetched' = None
    /\ result' = None
    /\ error' = ""
    /\ fed' = source

GetSnapshots_Call ==
    /\ Ready
    /\ \E url \in Urls :
           Enter("get_snapshots", [url |-> url], <<>>, "", None)

GetArchivedPage_Call ==
    /\ Ready
    /\ \E url \in Urls, timestamp \in Timestamps, original \in BOOLEAN :
           Enter("get_archived_page",
                 [url |-> url, timestamp |-> timestamp, original |-> original],
                 <<>>, PageArchivedUrl(url, timestamp, original), None)

\* The host follows a snapshot listing with a page fetch of one of its records.
Listed ==
    IF pc = "returned" /\ op = "get_snapshots"
    THEN {result[1].snapshots[k] : k \in 1..Len(result[1].snapshots)}
    ELSE {}

GetArchivedPage_CallWithSnapshot ==
    /\ pc = "returned"
    /\ \E rec \in Listed, original \in BOOLEAN :
           Enter("get_archived_page",
                 [url |-> rec.original_url, timestamp |-> rec.timestamp, original |-> original],
                 <<>>, PageArchivedUrl(rec.original_url, rec.timestamp, original), Some(rec))

WaybackResource_Call ==
    /\ Ready
    /\ \E url \in Urls, timestamp \in Timestamps :
           Enter("wayback_resource", [url |-> url, timestamp |-> timestamp],
                 <<>>, ResourceArchivedUrl(url, timestamp), None)

SearchItems_Call ==
    /\ Ready
    /\ \E query \in Queries, mediatype \in Mediatypes, collection \in Collections,
          rows \in RowCounts, page \in Pages :
           Enter("search_items",
                 [query |-> query, mediatype |-> mediatype, collection |-> collection,
                  rows |-> rows, page |-> page],
                 ComposeQuery(query, mediatype, collection), "", None)

\* async with httpx.AsyncClient(...) as client
ClientOpen ==
    /\ pc = "called"
    /\ pc' = "opened"
    /\ opened' = opened + 1
    /\ UNCHANGED <<op, args, q, archived_url, gets, closed, resp, exc, fetched, result, error, fed>>

\* await client.get(...): the request leaves and the operation suspends
ClientGet ==
    /\ pc = "opened"
    /\ pc' = "await"
    /\ gets' = gets + 1
    /\ UNCHANGED <<op, args, q, archived_url, opened, closed, resp, exc, fetched, result, error, fed>>

UpstreamResponses ==
    IF op = "get_snapshots" THEN JsonResponses(CdxBodies)
    ELSE IF op = "search_items" THEN JsonResponses(SearchBodies)
    ELSE TextResponses

\* the upstream answers with some status and body
UpstreamRespond ==
    /\ pc = "await"
    /\ \E r \in UpstreamResponses : resp' = Some(r)
    /\ pc' = "responded"
    /\ UNCHANGED <<op, args, q, archived_url, opened, gets, closed, exc, fetched, result, error, fed>>

\* the deadline passes or the connection fails: client.get raises
UpstreamFail ==
    /\ pc = "await"
    /\ \E e \in TransportErrors : exc' = e
    /\ pc' = "responded"
    /\ UNCHANGED <<op, args, q, archived_url, opened, gets, closed, resp, fetched, result, error, fed>>

\* the rest of the fetch helper: its outcome leaves the `async with` block,
\* and a raised exception propagates through the operation to the host
FetchExit(outcome) ==
    /\ closed' = AExit(closed, ~outcome.ok)
    /\ fetched' = outcome.value
    /\ error' = outcome.error
    /\ pc' = IF outcome.ok THEN "fetched" ELSE "failed"
    /\ UNCHANGED <<op, args, q, archived_url, opened, gets, resp, exc, result, fed>>

FetchJson_Exit ==
    /\ pc = "responded"
    /\ op \in JsonOps
    /\ FetchExit(FetchJsonBody(exc, resp))

FetchText_Exit ==
    /\ pc = "responded"
    /\ op \in TextOps
    /\ FetchExit(FetchTextBody(exc, resp))

\* the operation's code after the fetch: it returns its result or raises
Finish(outcome) ==
    /\ result' = outcome.value
    /\ error' = outcome.error
    /\ pc' = IF outcome.ok THEN "returned" ELSE "failed"
    /\ UNCHANGED <<op, args, q, archived_url, opened, gets, closed, resp, exc, fetched, fed>>

GetSnapshots_Finish ==
    /\ pc = "fetched"
    /\ op = "get_snapshots"
    /\ Finish(GetSnapshotsBody(args.url, fetched[1]))

GetArchivedPage_Finish ==
    /\ pc = "fetched"
    /\ op = "get_archived_page"
    /\ Finish(GetArchivedPageBody(args, archived_url, fetched[1]))

WaybackResource_Finish ==
    /\ pc = "fetched"
    /\ op = "wayback_resource"
    /\ Finish(WaybackResourceBody(archived_url, fetched[1]))

SearchItems_Finish ==
    /\ pc = "fetched"
    /\ op = "search_items"
    /\ Finish(SearchItemsBody(args, q, fetched[1]))

\* The invocation is over: its value or its exception has gone to the host,
\* and nothing of it is kept for the next one.
Complete ==
    /\ pc \in {"returned", "failed"}
    /\ pc' = "idle"
    /\ op' = "none"
    /\ args' = <<>>
    /\ q' = <<>>
    /\ archived_url' = ""
    /\ opened' = 0
    /\ gets' = 0
    /\ closed' = 0
    /\ resp' = None
    /\ exc' = ""
    /\ fetched' = None
    /\ result' = None
    /\ error' = ""
    /\ fed' = None

Next ==
    \/ GetSnapshots_Call
    \/ GetArchivedPage_Call
    \/ GetArchivedPage_CallWithSnapshot
    \/ WaybackResource_Call
    \/ SearchItems_Call
    \/ ClientOpen
    \/ ClientGet
    \/ UpstreamRespond
    \/ UpstreamFail
    \/ FetchJson_Exit
    \/ FetchText_Exit
    \/ GetSnapshots_Finish
    \/ GetArchivedPage_Finish
    \/ WaybackResource_Finish
    \/ SearchItems_Finish
    \/ Complete

Spec == Init /\ [][Next]_vars


(***************************************************************************)
(* Properties.                                                             *)
(***************************************************************************)
\* The invocation has run to its end.
Ended == pc \in {"returned", "failed"}

\* get_snapshots fetched a list whose first element is a header row.
ListedWithHeader ==
    /\ op = "get_snapshots"
    /\ fetched # None
    /\ fetched[1].kind = "list"
    /\ fetched[1].items # <<>>
    /\ fetched[1].items[1].kind = "list"

\* The Python columns at which header h names field f; the field's fixed
\* position when h does not name it.
FixedColumn(f) ==
    CASE f = "timestamp" -> 1 [] f = "original" -> 2 [] f = "mimetype" -> 3
      [] f = "statuscode" -> 4 [] f = "digest" -> 5 [] f = "length" -> 6
Columns(h, f) ==
    IF \E i \in 1..Len(h) : h[i] = f
    THEN {i - 1 : i \in {k \in 1..Len(h) : h[k] = f}}
    ELSE {FixedColumn(f)}

\* The value a record holds for the CDX field f.
RecordField(rec, f) ==
    CASE f = "timestamp" -> rec.timestamp [] f = "original" -> rec.original_url
      [] f = "mimetype" -> rec.mimetype [] f = "statuscode" -> rec.statuscode
      [] f = "digest" -> rec.digest [] f = "length" -> rec.length

\* Row `row` has a cell at every column the six fields are read from.
WellFormedRow(h, row) ==
    /\ row.kind = "list"
    /\ \A k \in 1..Len(Fields) : \E c \in Columns(h, Fields[k]) :
          /\ \A d \in Columns(h, Fields[k]) : d <= c
          /\ c < Len(row.cells)

\* Record rec holds a cell of row `row`.
FromRow(rec, row) ==
    \E k \in 1..Len(Fields), j \in 1..Len(row.cells) : RecordField(rec, Fields[k]) = row.cells[j]

\* C1: when get_snapshots has fetched a non-empty list with a header row, it
\* returns; a data row whose extraction raises gives no record, every other
\* data row gives exactly one, in the upstream order, and count is the number
\* of records.
C1_MalformedRowsSkippedIndividually ==
    (ListedWithHeader /\ Ended) =>
        /\ pc = "returned"
        /\ LET h == fetched[1].items[1].cells
               rows == Tail(fetched[1].items)
               snaps == result[1].snapshots
               good == {k \in 1..Len(rows) : WellFormedRow(h, rows[k])}
           IN  /\ result[1].count = Len(snaps)
               /\ Len(snaps) = Cardinality(good)
               /\ \A k \in 1..Len(rows) :
                     Cardinality({i \in 1..Len(snaps) : FromRow(snaps[i], rows[k])})
                        = IF k \in good THEN 1 ELSE 0
               /\ \A i, j \in 1..Len(snaps) : \A k, l \in 1..Len(rows) :
                     (i < j /\ FromRow(snaps[i], rows[k]) /\ FromRow(snaps[j], rows[l])) => k < l

\* A listing of two data rows, the first too short, returned one record: the second row's.
C1_Witness ==
    /\ ListedWithHeader
    /\ pc = "returned"
    /\ Len(fetched[1].items) = 3
    /\ fetched[1].items[1].cells = StdHeader
    /\ Len(fetched[1].items[2].cells) = 3
    /\ Len(fetched[1].items[3].cells) = 7
    /\ result[1].count = 1
    /\ result[1].snapshots[1].timestamp = Cell(2, 1)

\* C2: once the upstream has answered get_snapshots or search_items with a
\* status outside 200..299, the invocation holds no fetched value and no
\* result, and it ends failed with the HTTP status error.
C2_NonSuccessStatusFailsInvocation ==
    (op \in JsonOps /\ resp # None /\ resp[1].status \notin 200..299) =>
        /\ pc \in {"responded", "failed"}
        /\ fetched = None
        /\ result = None
        /\ pc = "failed" => error = "HTTPStatusError"

\* get_snapshots failed on a 304 whose body was a well-formed listing.
C2_Witness ==
    /\ op = "get_snapshots"
    /\ pc = "failed"
    /\ resp # None
    /\ resp[1].status = 304
    /\ resp[1].body.kind = "list"
    /\ Len(resp[1].body.items) = 2
    /\ error = "HTTPStatusError"
    /\ result = None

\* C3: once the replay endpoint has answered get_archived_page, whatever the
\* status, the invocation does not fail; its result carries the upstream
\* status, and the decoded body as text, or null when the body does not decode.
C3_PageStatusIsData ==
    (op = "get_archived_page" /\ resp # None) =>
        /\ pc # "failed"
        /\ pc = "returned" =>
              /\ result # None
              /\ result[1].status_code = resp[1].status
              /\ result[1].text = IF resp[1].decodable THEN Some(resp[1].body) ELSE None

\* get_archived_page returned a 404 with its text.
C3_Witness ==
    /\ op = "get_archived_page"
    /\ pc = "returned"
    /\ resp[1].status = 404
    /\ result[1].status_code = 404
    /\ result[1].text = Some("<html>")

\* C4: an invocation opens one client, issues one GET inside it and never a
\* second, and has closed the client by the time the fetch helper is left,
\* on every way out: a value, an error status, a timeout.
C4_OneClientOneGetReleased ==
    /\ opened <= 1
    /\ gets <= opened
    /\ closed <= opened
    /\ pc \in {"await", "responded"} => (opened = 1 /\ gets = 1 /\ closed = 0)
    /\ pc \in {"fetched", "returned", "failed"} => (opened = 1 /\ gets = 1 /\ closed = 1)

\* An invocation that timed out has failed with its one client closed.
C4_Witness ==
    /\ pc = "failed"
    /\ exc = "TimeoutException"
    /\ error = "TimeoutException"
    /\ opened = 1
    /\ gets = 1
    /\ closed = 1

\* s starts with p
StartsWith(s, p) == Len(p) <= Len(s) /\ SubSeq(s, 1, Len(p)) = p

\* C5: in search_items the composed q starts with `*:*` when the caller's
\* query is empty or only whitespace, and with the caller's query (its
\* surrounding whitespace aside) otherwise; with no filter q is that base.
C5_BlankQueryDefaultsToStar ==
    op = "search_items" =>
        LET blank == \A i \in 1..Len(args.query) : IsSpace(args.query[i])
            base == IF blank THEN STAR_QUERY ELSE Strip(args.query)
        IN  /\ StartsWith(q, base)
            /\ (~Truthy(args.mediatype) /\ ~Truthy(args.collection)) => q = base

\* search_items(query = "", mediatype = "texts")
EmptyQueryTexts ==
    /\ op = "search_items"
    /\ args.query = <<>>
    /\ args.mediatype = Some(<<"t", "e", "x", "t", "s">>)
    /\ args.collection = None

\* C6 as stated: search_items(query = "", mediatype = "texts") composes
\* q = "*:*AND mediatype:texts", with no space before AND.
C6_NoSpaceBeforeAnd ==
    EmptyQueryTexts =>
        q = <<"*", ":", "*", "A", "N", "D", " ",
              "m", "e", "d", "i", "a", "t", "y", "p", "e", ":", "t", "e", "x", "t", "s">>

\* C6 as amended: search_items(query = "", mediatype = "texts") composes
\* q = "*:* AND mediatype:texts", with one space between `*:*` and AND.
C6_SpaceBeforeAnd ==
    EmptyQueryTexts =>
        q = <<"*", ":", "*", " ", "A", "N", "D", " ",
              "m", "e", "d", "i", "a", "t", "y", "p", "e", ":", "t", "e", "x", "t", "s">>

\* search_items(query = "", mediatype = "texts") has composed its q and sent it.
C6_Witness == EmptyQueryTexts /\ pc = "await" /\ Len(q) = 23

\* C7: every record get_snapshots returns is one data row read field by
\* field: each of the six fields from a column at which the header names it,
\* and from its fixed position 1..6 when the header does not name it.
C7_FieldsByHeaderNameElseFixedColumn ==
    (ListedWithHeader /\ pc = "returned") =>
        LET h == fetched[1].items[1].cells
            rows == Tail(fetched[1].items)
            snaps == result[1].snapshots
        IN  \A i \in 1..Len(snaps) : \E k \in 1..Len(rows) :
               /\ rows[k].kind = "list"
               /\ \A n \in 1..Len(Fields) : \E c \in Columns(h, Fields[n]) :
                     /\ c < Len(rows[k].cells)
                     /\ RecordField(snaps[i], Fields[n]) = rows[k].cells[c + 1]

\* A header that omits digest, and a record whose digest is the cell at column 5.
C7_Witness ==
    /\ ListedWithHeader
    /\ pc = "returned"
    /\ fetched[1].items[1].cells = <<"urlkey", "timestamp", "original", "mimetype", "statuscode", "length">>
    /\ result[1].count >= 1
    /\ result[1].snapshots[1].digest = Cell(1, 5)
    /\ result[1].snapshots[1].timestamp = Cell(1, 1)

\* The fetched search payload has no `response` entry.
LacksResponse(data) == data.kind # "dict" \/ "response" \notin DOMAIN data.value

C9_EmptyOrNonListIsEmptyListing ==
    (op = "get_snapshots" /\ fetched # None /\ Ended
        /\ (fetched[1].kind # "list" \/ fetched[1].items = <<>>)) =>
        /\ pc = "returned"
        /\ result = Some([url |-> args.url, snapshots |-> <<>>, count |-> 0])

\* get_snapshots returned the empty listing for a JSON object.
C9_Witness ==
    /\ op = "get_snapshots"
    /\ pc = "returned"
    /\ fetched[1].kind = "dict"
    /\ result[1].count = 0

\* C10: every record of a listing has archived_url =
\* WAYBACK_ENDPOINT/timestamp/original_url, and get_archived_page called with
\* a record's original_url and timestamp (the original flag left at its
\* default, false) returns that same archived_url.
C10_ArchivedUrlRoundTrip ==
    /\ (op = "get_snapshots" /\ pc = "returned") =>
          \A i \in 1..Len(result[1].snapshots) :
             LET rec == result[1].snapshots[i]
             IN  rec.archived_url =
                    "https://web.archive.org/web" \o "/" \o rec.timestamp \o "/" \o rec.original_url
    /\ (op = "get_archived_page" /\ fed # None /\ ~args.original) =>
          /\ args.url = fed[1].original_url
          /\ args.timestamp = fed[1].timestamp
          /\ archived_url = fed[1].archived_url
          /\ pc = "returned" => result[1].archived_url = fed[1].archived_url

\* get_archived_page returned for the url and timestamp of a listed record.
C10_Witness ==
    /\ op = "get_archived_page"
    /\ fed # None
    /\ ~args.original
    /\ pc = "returned"
    /\ result[1].archived_url = fed[1].archived_url
    /\ result[1].archived_url = "https://web.archive.org/web/r1c1/r1c2"


====
